---- MODULE Spec2Model ----
(***************************************************************************)
(* Model of stock_indicator_monitor.py: the MACD and RSI engines, the two  *)
(* crossover detectors and the combination of their signals.               *)
(*                                                                         *)
(* A float is a pair <<n, d>>: d > 0 is the rational n/d in lowest terms,  *)
(* <<0, 0>> is NaN (pandas' "undefined"), <<1, 0>> is +inf and <<-1, 0>>   *)
(* is -inf.  Arithmetic is exact (common factors are cancelled before a    *)
(* product is formed); the sign of a zero is not kept (see FDiv).  A       *)
(* Series is a sequence; iloc[i] of the code is s[i + 1] here.             *)
(***************************************************************************)
EXTENDS Integers, Sequences, FiniteSets

VARIABLES
    close_prices,          \* data['Close']
    index,                 \* data.index, in hours since an epoch midnight
    fast, slow, signal,    \* the spans handed to calculate_macd
    period,                \* the window handed to calculate_rsi
    ema_fast, ema_slow,    \* locals of calculate_macd
    macd_line, signal_line, histogram,
    rsi,
    macd_buy_signals, macd_sell_signals,
    rsi_buy_signals, rsi_sell_signals,
    combined_buy_signals, combined_sell_signals,
    pc                     \* per operation: "wait", "ready", "done", "error"

vars == <<close_prices, index, fast, slow, signal, period, ema_fast, ema_slow,
          macd_line, signal_line, histogram, rsi,
          macd_buy_signals, macd_sell_signals, rsi_buy_signals, rsi_sell_signals,
          combined_buy_signals, combined_sell_signals, pc>>

(***************************************************************************)
(* Bounds of the model.                                                    *)
(***************************************************************************)
MaxLineLen == 4      \* longest series handed directly to a detector
MaxPriceLen == 3     \* longest price series handed to an engine
MaxPrice == 2        \* closing prices handed to calculate_rsi are 0..MaxPrice
MaxMacdPrice == 1    \* closing prices handed to calculate_macd are 0..MaxMacdPrice
MaxSpan == 3         \* spans and windows are drawn up to MaxSpan
MaxDays == 5         \* trading days are drawn from MaxDays calendar days

(***************************************************************************)
(* Floats.                                                                 *)
(***************************************************************************)
NaN == <<0, 0>>
PosInf == <<1, 0>>
NegInf == <<-1, 0>>

Abs(k) == IF k < 0 THEN -k ELSE k

RECURSIVE Gcd(_, _)
Gcd(a, b) == IF b = 0 THEN a ELSE Gcd(b, a % b)

\* n/d, d # 0, in lowest terms with a positive denominator
Rat(n, d) ==
    LET g == Gcd(Abs(n), Abs(d))
        s == IF d < 0 THEN -1 ELSE 1
    IN  <<(s * n) \div g, (s * d) \div g>>

Num(k) == <<k, 1>>

\* pd.notna
notna(x) == ~(x[1] = 0 /\ x[2] = 0)

IsInf(x) == x[2] = 0 /\ x[1] # 0

\* a < b of two floats: False when either is NaN
FLt(a, b) ==
    /\ notna(a)
    /\ notna(b)
    /\ IF IsInf(a) \/ IsInf(b)
         THEN \/ (a = NegInf /\ b # NegInf)
              \/ (b = PosInf /\ a # PosInf)
         ELSE LET g == Gcd(a[2], b[2])
              IN  a[1] * (b[2] \div g) < b[1] * (a[2] \div g)

FGt(a, b) == FLt(b, a)

FLe(a, b) == notna(a) /\ notna(b) /\ (a = b \/ FLt(a, b))

FGe(a, b) == FLe(b, a)

FNeg(a) == <<-a[1], a[2]>>

FAdd(a, b) ==
    IF ~notna(a) \/ ~notna(b) THEN NaN
    ELSE IF IsInf(a) THEN (IF IsInf(b) /\ b # a THEN NaN ELSE a)
    ELSE IF IsInf(b) THEN b
    ELSE LET g == Gcd(a[2], b[2])
         IN  Rat(a[1] * (b[2] \div g) + b[1] * (a[2] \div g), (a[2] \div g) * b[2])

FSub(a, b) == FAdd(a, FNeg(b))

FMul(a, b) ==
    IF ~notna(a) \/ ~notna(b) THEN NaN
    ELSE IF IsInf(a) \/ IsInf(b)
      THEN (IF a[1] = 0 \/ b[1] = 0 THEN NaN
            ELSE IF (a[1] > 0) = (b[1] > 0) THEN PosInf ELSE NegInf)
    ELSE LET g == Gcd(Abs(a[1]), b[2])
             h == Gcd(Abs(b[1]), a[2])
         IN  Rat((a[1] \div g) * (b[1] \div h), (a[2] \div h) * (b[2] \div g))

\* numpy's float division: x/0 is +-inf, 0/0 is NaN, and nothing is raised.
\* A zero divisor is taken as +0: with -0 the quotient is the other infinity,
\* and 100 - 100/(1 + rs) is 100 for both.
FDiv(a, b) ==
    IF ~notna(a) \/ ~notna(b) THEN NaN
    ELSE IF IsInf(b) THEN (IF IsInf(a) THEN NaN ELSE Num(0))
    ELSE IF IsInf(a) THEN (IF (a[1] > 0) = (b[1] >= 0) THEN PosInf ELSE NegInf)
    ELSE IF b[1] = 0
      THEN (IF a[1] = 0 THEN NaN ELSE IF a[1] > 0 THEN PosInf ELSE NegInf)
    ELSE LET g == Gcd(Abs(a[1]), Abs(b[1]))
             h == Gcd(a[2], b[2])
         IN  Rat((a[1] \div g) * (b[2] \div h), (a[2] \div h) * (b[1] \div g))

\* Series.iloc[i], i from 0
iloc(s, i) == s[i + 1]

\* the sequences over S of length at most n
SeqsUpTo(S, n) == UNION {[1..k -> S] : k \in 0..n}

(***************************************************************************)
(* detect_macd_signals                                                     *)
(***************************************************************************)
\* MacdStep requiring a strict inequality before the crossing as well
MacdStepStrict(m, s, i, lists) ==
    IF FLt(iloc(m, i-1), iloc(s, i-1)) /\ FGt(iloc(m, i), iloc(s, i))
      THEN <<Append(lists[1], i), lists[2]>>
    ELSE IF FGt(iloc(m, i-1), iloc(s, i-1)) /\ FLt(iloc(m, i), iloc(s, i))
      THEN <<lists[1], Append(lists[2], i)>>
    ELSE lists

\* MacdStep recording positions counted from 1
MacdStepOneBased(m, s, i, lists) ==
    IF FLe(iloc(m, i-1), iloc(s, i-1)) /\ FGt(iloc(m, i), iloc(s, i))
      THEN <<Append(lists[1], i + 1), lists[2]>>
    ELSE IF FGe(iloc(m, i-1), iloc(s, i-1)) /\ FLt(iloc(m, i), iloc(s, i))
      THEN <<lists[1], Append(lists[2], i + 1)>>
    ELSE lists

\* MacdStep testing the side of the line at i only, not the crossing
MacdStepLevel(m, s, i, lists) ==
    IF FGt(iloc(m, i), iloc(s, i))
      THEN <<Append(lists[1], i), lists[2]>>
    ELSE IF FLt(iloc(m, i), iloc(s, i))
      THEN <<lists[1], Append(lists[2], i)>>
    ELSE lists

\* the body of the loop at index i: the lists after it
MacdStep(m, s, i, lists) ==
    IF FLe(iloc(m, i-1), iloc(s, i-1)) /\ FGt(iloc(m, i), iloc(s, i))
      THEN <<Append(lists[1], i), lists[2]>>
    ELSE IF FGe(iloc(m, i-1), iloc(s, i-1)) /\ FLt(iloc(m, i), iloc(s, i))
      THEN <<lists[1], Append(lists[2], i)>>
    ELSE lists

RECURSIVE MacdLoop(_, _, _, _)
MacdLoop(m, s, i, lists) ==
    IF i >= Len(m) THEN lists
    ELSE MacdLoop(m, s, i + 1, MacdStep(m, s, i, lists))

\* <<buy_signals, sell_signals>>
detect_macd_signals(m, s) == MacdLoop(m, s, 1, <<<<>>, <<>>>>)

(***************************************************************************)
(* detect_rsi_signals                                                      *)
(***************************************************************************)
\* RsiStep requiring the previous value strictly beyond the threshold
RsiStepStrict(r, i, lists) ==
    IF notna(iloc(r, i-1)) /\ notna(iloc(r, i))
      THEN IF FLt(iloc(r, i-1), Num(30)) /\ FGt(iloc(r, i), Num(30))
             THEN <<Append(lists[1], i), lists[2]>>
           ELSE IF FGt(iloc(r, i-1), Num(70)) /\ FLt(iloc(r, i), Num(70))
             THEN <<lists[1], Append(lists[2], i)>>
           ELSE lists
    ELSE lists

\* the body of the loop at index i: the lists after it
RsiStep(r, i, lists) ==
    IF notna(iloc(r, i-1)) /\ notna(iloc(r, i))
      THEN IF FLe(iloc(r, i-1), Num(30)) /\ FGt(iloc(r, i), Num(30))
             THEN <<Append(lists[1], i), lists[2]>>
           ELSE IF FGe(iloc(r, i-1), Num(70)) /\ FLt(iloc(r, i), Num(70))
             THEN <<lists[1], Append(lists[2], i)>>
           ELSE lists
    ELSE lists

RECURSIVE RsiLoop(_, _, _)
RsiLoop(r, i, lists) ==
    IF i >= Len(r) THEN lists
    ELSE RsiLoop(r, i + 1, RsiStep(r, i, lists))

detect_rsi_signals(r) == RsiLoop(r, 1, <<<<>>, <<>>>>)

(***************************************************************************)
(* calculate_macd                                                          *)
(***************************************************************************)
\* pandas validates the span when ewm() is called: span >= 1 or ValueError
SpanOk(span) == span >= 1

\* alpha = 2 / (span + 1)
Alpha(span) == Rat(2, span + 1)

\* EwmStep with adjust=False: the new sample weighs alpha, the weights restart
EwmStepUnadjusted(span, st, cur) ==
    LET old_wt == FMul(st[2], FSub(Num(1), Alpha(span)))
        new_wt == Alpha(span)
    IN  <<FDiv(FAdd(FMul(old_wt, st[1]), FMul(new_wt, cur)), FAdd(old_wt, new_wt)),
          Num(1)>>

\* One step of pandas' ewm mean (adjust=True, the default of Series.ewm):
\* st = <<weighted, old_wt>> before the sample cur, the pair after it.
EwmStep(span, st, cur) ==
    LET old_wt == FMul(st[2], FSub(Num(1), Alpha(span)))
        new_wt == Num(1)
    IN  <<FDiv(FAdd(FMul(old_wt, st[1]), FMul(new_wt, cur)), FAdd(old_wt, new_wt)),
          FAdd(old_wt, new_wt)>>

RECURSIVE EwmLoop(_, _, _, _, _)
EwmLoop(x, span, i, st, out) ==
    IF i >= Len(x) THEN out
    ELSE LET nx == EwmStep(span, st, iloc(x, i))
         IN  EwmLoop(x, span, i + 1, nx, Append(out, nx[1]))

\* x.ewm(span=span).mean() of a series without NaN
ewm_mean(x, span) ==
    IF Len(x) = 0 THEN <<>>
    ELSE EwmLoop(x, span, 1, <<iloc(x, 0), Num(1)>>, <<iloc(x, 0)>>)

\* a - b of two aligned series
SeriesSub(a, b) == [k \in 1..Len(a) |-> FSub(a[k], b[k])]

MacdConfigRaises(f, sl, sg) == ~SpanOk(f) \/ ~SpanOk(sl) \/ ~SpanOk(sg)

CalculateMacd ==
    /\ pc["calculate_macd"] = "ready"
    /\ IF MacdConfigRaises(fast, slow, signal)
         THEN /\ pc' = [pc EXCEPT !["calculate_macd"] = "error"]
              /\ UNCHANGED <<ema_fast, ema_slow, macd_line, signal_line, histogram>>
         ELSE /\ ema_fast' = ewm_mean(close_prices, fast)
              /\ ema_slow' = ewm_mean(close_prices, slow)
              /\ macd_line' = SeriesSub(ema_fast', ema_slow')
              /\ signal_line' = ewm_mean(macd_line', signal)
              /\ histogram' = SeriesSub(macd_line', signal_line')
              /\ pc' = [pc EXCEPT !["calculate_macd"] = "done",
                                  !["detect_macd"] = "ready"]
    /\ UNCHANGED <<close_prices, index, fast, slow, signal, period, rsi,
                   macd_buy_signals, macd_sell_signals,
                   rsi_buy_signals, rsi_sell_signals,
                   combined_buy_signals, combined_sell_signals>>

(***************************************************************************)
(* calculate_rsi                                                           *)
(***************************************************************************)
\* Series.diff(): NaN first, then the change from the previous sample
diff(x) == [k \in 1..Len(x) |-> IF k = 1 THEN NaN ELSE FSub(x[k], x[k-1])]

\* price_diff.where(price_diff > 0, 0): a NaN fails the test and becomes 0
Gain(d) == [k \in 1..Len(d) |-> IF FGt(d[k], Num(0)) THEN d[k] ELSE Num(0)]

\* -price_diff.where(price_diff < 0, 0)
Loss(d) == [k \in 1..Len(d) |-> FNeg(IF FLt(d[k], Num(0)) THEN d[k] ELSE Num(0))]

\* pandas validates the window when rolling() is called: window >= 0
WindowOk(window) == window >= 0

RECURSIVE SumRange(_, _, _)
SumRange(x, lo, hi) ==
    IF lo > hi THEN Num(0) ELSE FAdd(x[lo], SumRange(x, lo + 1, hi))

\* rolling(window) leaves min_periods at its default, the window itself
min_periods(window) == window

\* x.rolling(window=window).mean(): min_periods = window, NaN before it
rolling_mean(x, window) ==
    [k \in 1..Len(x) |->
        IF window >= 1 /\ k >= min_periods(window)
          THEN FDiv(SumRange(x, k - window + 1, k), Num(window))
          ELSE NaN]

avg_gain(x, window) == rolling_mean(Gain(diff(x)), window)

avg_loss(x, window) == rolling_mean(Loss(diff(x)), window)

\* RsiOf with the ratio upside down
RsiOfSwapped(g, l) ==
    LET rs == FDiv(l, g)
    IN  FSub(Num(100), FDiv(Num(100), FAdd(Num(1), rs)))

\* RsiOf with a branch that reads a window without movement as 0
RsiOfFlatZero(g, l) ==
    IF g = Num(0) /\ l = Num(0) THEN Num(0)
    ELSE LET rs == FDiv(g, l)
         IN  FSub(Num(100), FDiv(Num(100), FAdd(Num(1), rs)))

\* rs = avg_gain / avg_loss ; rsi = 100 - (100 / (1 + rs))
RsiOf(g, l) ==
    LET rs == FDiv(g, l)
    IN  FSub(Num(100), FDiv(Num(100), FAdd(Num(1), rs)))

calculate_rsi(x, window) ==
    LET ag == avg_gain(x, window)
        al == avg_loss(x, window)
    IN  [k \in 1..Len(x) |-> RsiOf(ag[k], al[k])]

CalculateRsi ==
    /\ pc["calculate_rsi"] = "ready"
    /\ IF ~WindowOk(period)
         THEN /\ pc' = [pc EXCEPT !["calculate_rsi"] = "error"]
              /\ UNCHANGED rsi
         ELSE /\ rsi' = calculate_rsi(close_prices, period)
              /\ pc' = [pc EXCEPT !["calculate_rsi"] = "done",
                                  !["detect_rsi"] = "ready"]
    /\ UNCHANGED <<close_prices, index, fast, slow, signal, period,
                   ema_fast, ema_slow, macd_line, signal_line, histogram,
                   macd_buy_signals, macd_sell_signals,
                   rsi_buy_signals, rsi_sell_signals,
                   combined_buy_signals, combined_sell_signals>>

(***************************************************************************)
(* The detectors as operations.                                            *)
(***************************************************************************)
DetectMacd ==
    /\ pc["detect_macd"] = "ready"
    /\ macd_buy_signals' = detect_macd_signals(macd_line, signal_line)[1]
    /\ macd_sell_signals' = detect_macd_signals(macd_line, signal_line)[2]
    /\ pc' = [pc EXCEPT !["detect_macd"] = "done"]
    /\ UNCHANGED <<close_prices, index, fast, slow, signal, period,
                   ema_fast, ema_slow, macd_line, signal_line, histogram, rsi,
                   rsi_buy_signals, rsi_sell_signals,
                   combined_buy_signals, combined_sell_signals>>

DetectRsi ==
    /\ pc["detect_rsi"] = "ready"
    /\ rsi_buy_signals' = detect_rsi_signals(rsi)[1]
    /\ rsi_sell_signals' = detect_rsi_signals(rsi)[2]
    /\ pc' = [pc EXCEPT !["detect_rsi"] = "done"]
    /\ UNCHANGED <<close_prices, index, fast, slow, signal, period,
                   ema_fast, ema_slow, macd_line, signal_line, histogram, rsi,
                   macd_buy_signals, macd_sell_signals,
                   combined_buy_signals, combined_sell_signals>>

(***************************************************************************)
(* analyze_stock_indicators: the combination of the signals                *)
(***************************************************************************)
\* Timedelta.days of a difference in hours: the floor of the day count
days(td) == td \div 24

\* Timestamp.strftime('%Y-%m-%d'): the calendar day of the timestamp
strftime(ts) == ts \div 24

\* Near without abs()
NearSigned(date, rsi_date) == days(date - rsi_date) <= 2

\* the test of the inner loop
Near(date, rsi_date) == Abs(days(date - rsi_date)) <= 2

RECURSIVE InnerLoop(_, _, _, _)
InnerLoop(date, rsi_dates, j, out) ==
    IF j > Len(rsi_dates) THEN out
    ELSE InnerLoop(date, rsi_dates, j + 1,
                   IF Near(date, rsi_dates[j]) THEN Append(out, strftime(date))
                   ELSE out)

RECURSIVE OuterLoop(_, _, _, _, _)
OuterLoop(idx, macd_signals, rsi_signals, k, out) ==
    IF k > Len(macd_signals) THEN out
    ELSE LET date == iloc(idx, macd_signals[k])
             rsi_dates == [j \in 1..Len(rsi_signals) |-> iloc(idx, rsi_signals[j])]
         IN  OuterLoop(idx, macd_signals, rsi_signals, k + 1,
                       InnerLoop(date, rsi_dates, 1, out))

combine(idx, macd_signals, rsi_signals) ==
    OuterLoop(idx, macd_signals, rsi_signals, 1, <<>>)

Combine ==
    /\ pc["combine"] = "ready"
    /\ combined_buy_signals' = combine(index, macd_buy_signals, rsi_buy_signals)
    /\ combined_sell_signals' = combine(index, macd_sell_signals, rsi_sell_signals)
    /\ pc' = [pc EXCEPT !["combine"] = "done"]
    /\ UNCHANGED <<close_prices, index, fast, slow, signal, period,
                   ema_fast, ema_slow, macd_line, signal_line, histogram, rsi,
                   macd_buy_signals, macd_sell_signals,
                   rsi_buy_signals, rsi_sell_signals>>

(***************************************************************************)
(* Initial states: the inputs of each operation, drawn from bounded sets.  *)
(***************************************************************************)
Ops == {"calculate_macd", "calculate_rsi", "detect_macd", "detect_rsi", "combine"}

Ready(S) == [op \in Ops |-> IF op \in S THEN "ready" ELSE "wait"]

\* closing prices, as floats
PriceSeqs(top) == SeqsUpTo({Num(k) : k \in 0..top}, MaxPriceLen)

\* values of a MACD or signal line handed to the detector
LineVals == {NaN, Num(0), Num(1)}

\* values of an RSI series handed to the detector
RsiVals == {NaN, Num(29), Num(30), Num(31), Num(69), Num(70), Num(71)}

\* the fixture of the specification's testable properties
FixtureMacd == <<Num(1), Num(1), Num(2), Num(0), Num(-1)>>
FixtureSignal == <<Num(2), Num(1), Num(1), Num(1), Num(0)>>

RECURSIVE SortedSeq(_)
SortedSeq(S) ==
    IF S = {} THEN <<>>
    ELSE LET m == CHOOSE x \in S : \A y \in S : x <= y
         IN  <<m>> \o SortedSeq(S \ {m})

\* the positions (from 0) of a series whose mark is kind, in increasing order
Marked(f, kind) ==
    SelectSeq([k \in 1..Len(f) |-> k], LAMBDA k : f[k] = kind)

NoSeries ==
    /\ ema_fast = <<>> /\ ema_slow = <<>>
    /\ macd_line = <<>> /\ signal_line = <<>> /\ histogram = <<>>
    /\ rsi = <<>>

NoSignals ==
    /\ macd_buy_signals = <<>> /\ macd_sell_signals = <<>>
    /\ rsi_buy_signals = <<>> /\ rsi_sell_signals = <<>>
    /\ combined_buy_signals = <<>> /\ combined_sell_signals = <<>>

\* the defaults of calculate_macd and calculate_rsi
DefaultConfig == fast = 12 /\ slow = 26 /\ signal = 9 /\ period = 14

InitMacd ==
    /\ close_prices \in PriceSeqs(MaxMacdPrice)
    /\ index = <<>>
    /\ fast \in 0..MaxSpan /\ slow \in 0..MaxSpan /\ signal \in 0..MaxSpan
    /\ period = 14
    /\ NoSeries /\ NoSignals
    /\ pc = Ready({"calculate_macd"})

InitRsi ==
    /\ close_prices \in PriceSeqs(MaxPrice)
    /\ index = <<>>
    /\ period \in -1..MaxSpan
    /\ fast = 12 /\ slow = 26 /\ signal = 9
    /\ NoSeries /\ NoSignals
    /\ pc = Ready({"calculate_rsi"})

InitDetect ==
    /\ close_prices = <<>> /\ index = <<>>
    /\ DefaultConfig
    /\ ema_fast = <<>> /\ ema_slow = <<>> /\ histogram = <<>>
    /\ NoSignals
    /\ pc = Ready({"detect_macd", "detect_rsi"})
    /\ \/ \E n \in 0..MaxLineLen :
             /\ macd_line \in [1..n -> LineVals]
             /\ signal_line \in [1..n -> LineVals]
             /\ rsi = <<>>
       \/ /\ macd_line = FixtureMacd
          /\ signal_line = FixtureSignal
          /\ rsi = <<>>
       \/ /\ macd_line = <<>>
          /\ signal_line = <<>>
          /\ rsi \in SeqsUpTo(RsiVals, MaxLineLen)

\* data.index: strictly increasing midnights; the detectors' lists: increasing
\* positions >= 1, a position in at most one list of a detector
InitCombine ==
    /\ close_prices = <<>>
    /\ DefaultConfig
    /\ NoSeries
    /\ combined_buy_signals = <<>> /\ combined_sell_signals = <<>>
    /\ pc = Ready({"combine"})
    /\ \E D \in (SUBSET {7 + k : k \in 1..MaxDays}) \ {{}} :
          /\ index = [k \in 1..Cardinality(D) |-> 24 * SortedSeq(D)[k]]
          /\ \E fm \in [1..(Cardinality(D) - 1) -> {"none", "buy", "sell"}],
                fr \in [1..(Cardinality(D) - 1) -> {"none", "buy", "sell"}] :
                /\ macd_buy_signals = Marked(fm, "buy")
                /\ macd_sell_signals = Marked(fm, "sell")
                /\ rsi_buy_signals = Marked(fr, "buy")
                /\ rsi_sell_signals = Marked(fr, "sell")

NextMacd == CalculateMacd \/ DetectMacd

NextRsi == CalculateRsi \/ DetectRsi

NextDetect == DetectMacd \/ DetectRsi

NextCombine == Combine

SpecMacd == InitMacd /\ [][NextMacd]_vars

SpecRsi == InitRsi /\ [][NextRsi]_vars

SpecDetect == InitDetect /\ [][NextDetect]_vars

SpecCombine == InitCombine /\ [][NextCombine]_vars

(***************************************************************************)
(* Vocabulary of the properties.                                           *)
(***************************************************************************)
Range(s) == {s[k] : k \in 1..Len(s)}

AllDefined(s) == \A k \in 1..Len(s) : notna(s[k])

StrictlyIncreasing(s) == \A a, b \in 1..Len(s) : a < b => s[a] < s[b]

\* order of two finite floats: the sign of b - a
RLe(a, b) == FSub(b, a)[1] >= 0
RLt(a, b) == FSub(b, a)[1] > 0

\* position i (from 0) of series m against series s: the two crossings
CrossUp(m, s, i) == RLe(m[i], s[i]) /\ RLt(s[i + 1], m[i + 1])
CrossDown(m, s, i) == RLe(s[i], m[i]) /\ RLt(m[i + 1], s[i + 1])

\* C1: on fully defined lines of equal length n, Buy is exactly the set of
\* i in 1..n-1 with macd[i-1] <= signal[i-1] and macd[i] > signal[i], Sell
\* exactly the set with macd[i-1] >= signal[i-1] and macd[i] < signal[i];
\* the fixture [1,1,2,0,-1] against [2,1,1,1,0] gives the Buy list [2].
C1_MacdCrossovers ==
    (pc["detect_macd"] = "done" /\ AllDefined(macd_line) /\ AllDefined(signal_line))
    => /\ Range(macd_buy_signals) =
            {i \in 1..(Len(macd_line) - 1) : CrossUp(macd_line, signal_line, i)}
       /\ Range(macd_sell_signals) =
            {i \in 1..(Len(macd_line) - 1) : CrossDown(macd_line, signal_line, i)}
       /\ (macd_line = FixtureMacd /\ signal_line = FixtureSignal
             => macd_buy_signals = <<2>>)

C1_Witness ==
    /\ pc["detect_macd"] = "done"
    /\ AllDefined(macd_line) /\ AllDefined(signal_line)
    /\ Len(macd_line) >= 3
    /\ macd_buy_signals # <<>> /\ macd_sell_signals # <<>>
    /\ \E k \in 1..Len(macd_line) : macd_line[k] = signal_line[k]

\* C2: detect_rsi_signals emits Buy at i exactly when rsi[i-1] and rsi[i] are
\* both defined, rsi[i-1] <= 30 and rsi[i] > 30, Sell at i exactly when both
\* are defined, rsi[i-1] >= 70 and rsi[i] < 70; an index with an undefined
\* neighbour yields no event, and the call completes.
C2_RsiCrossovers ==
    pc["detect_rsi"] # "ready" =>
      /\ pc["detect_rsi"] = "done"
      /\ \A i \in 1..(Len(rsi) - 1) :
            /\ i \in Range(rsi_buy_signals) <=>
                  /\ notna(rsi[i]) /\ notna(rsi[i + 1])
                  /\ rsi[i][1] <= 30 * rsi[i][2]
                  /\ rsi[i + 1][1] > 30 * rsi[i + 1][2]
            /\ i \in Range(rsi_sell_signals) <=>
                  /\ notna(rsi[i]) /\ notna(rsi[i + 1])
                  /\ rsi[i][1] >= 70 * rsi[i][2]
                  /\ rsi[i + 1][1] < 70 * rsi[i + 1][2]
            /\ (~notna(rsi[i]) \/ ~notna(rsi[i + 1]))
                 => i \notin Range(rsi_buy_signals) \cup Range(rsi_sell_signals)

C2_Witness ==
    /\ pc["detect_rsi"] = "done"
    /\ rsi_buy_signals # <<>> /\ rsi_sell_signals # <<>>
    /\ \E k \in 1..Len(rsi) : ~notna(rsi[k])
    /\ \E k \in 1..Len(rsi) : rsi[k] = Num(30)

\* the calendar day of a timestamp
DayOf(ts) == ts \div 24

\* calendar days between two timestamps
CalendarDays(a, b) == Abs(DayOf(a) - DayOf(b))

Repeat(x, n) == [k \in 1..n |-> x]

\* scanning the MACD events from the k-th on: each date once per RSI event of
\* the kind within two calendar days
RECURSIVE AllPairs(_, _, _, _)
AllPairs(idx, ms, rs, k) ==
    IF k > Len(ms) THEN <<>>
    ELSE Repeat(DayOf(iloc(idx, ms[k])),
                Cardinality({j \in 1..Len(rs) :
                    CalendarDays(iloc(idx, ms[k]), iloc(idx, rs[j])) <= 2}))
         \o AllPairs(idx, ms, rs, k + 1)

\* the position (from 0) of calendar day d in the index, -1 when absent
PosOfDay(d) ==
    IF \E k \in 1..Len(index) : DayOf(index[k]) = d
      THEN (CHOOSE k \in 1..Len(index) : DayOf(index[k]) = d) - 1
      ELSE -1

C4_FirstPeriodUndefined ==
    (pc["calculate_rsi"] = "done" /\ period >= 1)
    => \A i \in 0..(Len(rsi) - 1) : i <= period - 1 => ~notna(iloc(rsi, i))

\* C5 as stated: wherever the window averages are available and avgLoss is 0,
\* RSI is 100, whatever avgGain is.
C5_ZeroLossIs100 ==
    (pc["calculate_rsi"] = "done" /\ period >= 1)
    => \A k \in 1..Len(rsi) :
          (k >= min_periods(period) /\ avg_loss(close_prices, period)[k] = Num(0))
          => rsi[k] = Num(100)

\* C5 amended: the call raises nothing; wherever the window averages are
\* available and avgLoss is 0, RSI is 100 if avgGain > 0 and undefined if
\* avgGain is 0 too.
C5_ZeroLossAmended ==
    /\ (period >= 1 /\ pc["calculate_rsi"] # "ready") => pc["calculate_rsi"] = "done"
    /\ (pc["calculate_rsi"] = "done" /\ period >= 1)
       => \A k \in 1..Len(rsi) :
             (k >= min_periods(period) /\ avg_loss(close_prices, period)[k] = Num(0))
             => /\ avg_gain(close_prices, period)[k][1] > 0 => rsi[k] = Num(100)
                /\ avg_gain(close_prices, period)[k][1] = 0 => rsi[k] = NaN

C5_Witness ==
    /\ pc["calculate_rsi"] = "done" /\ period >= 2
    /\ \E k, j \in 1..Len(rsi) :
          /\ k >= min_periods(period) /\ j >= min_periods(period)
          /\ avg_loss(close_prices, period)[k] = Num(0)
          /\ avg_gain(close_prices, period)[k][1] > 0
          /\ rsi[k] = Num(100)
          /\ avg_loss(close_prices, period)[j] = Num(0)
          /\ avg_gain(close_prices, period)[j][1] = 0
          /\ rsi[j] = NaN

RECURSIVE Pow(_, _)
Pow(w, k) == IF k = 0 THEN Num(1) ELSE FMul(w, Pow(w, k - 1))

\* sum over k in 0..i of w^k * x[i-k], and of w^k: RECURSIVE on k
RECURSIVE WeightedSum(_, _, _, _)
WeightedSum(x, w, i, k) ==
    IF k > i THEN Num(0)
    ELSE FAdd(FMul(Pow(w, k), iloc(x, i - k)), WeightedSum(x, w, i, k + 1))

RECURSIVE WeightTotal(_, _, _)
WeightTotal(w, i, k) ==
    IF k > i THEN Num(0) ELSE FAdd(Pow(w, k), WeightTotal(w, i, k + 1))

\* e is the average of x weighted by (1 - alpha)^k, k samples back
IsAdjustedEma(e, x, span) ==
    LET w == FSub(Num(1), Rat(2, span + 1))
    IN  /\ Len(e) = Len(x)
        /\ Len(x) > 0 => iloc(e, 0) = iloc(x, 0)
        /\ \A i \in 1..(Len(x) - 1) :
              iloc(e, i) = FDiv(WeightedSum(x, w, i, 0), WeightTotal(w, i, 0))

\* e[0] = x[0] and e[i] = alpha * x[i] + (1 - alpha) * e[i-1]
IsRecursiveEma(e, x, span) ==
    LET a == Rat(2, span + 1)
    IN  /\ Len(e) = Len(x)
        /\ Len(x) > 0 => iloc(e, 0) = iloc(x, 0)
        /\ \A i \in 1..(Len(x) - 1) :
              iloc(e, i) = FAdd(FMul(a, iloc(x, i)),
                                FMul(FSub(Num(1), a), iloc(e, i - 1)))

\* C6 as stated: each EMA of calculate_macd (fast, slow, signal line over the
\* MACD line) has EMA[0] = x[0] and EMA[i] = alpha*x[i] + (1-alpha)*EMA[i-1].
C6_RecursiveEma ==
    pc["calculate_macd"] = "done" =>
      /\ IsRecursiveEma(ema_fast, close_prices, fast)
      /\ IsRecursiveEma(ema_slow, close_prices, slow)
      /\ IsRecursiveEma(signal_line, macd_line, signal)

\* C6 amended: each EMA of calculate_macd has EMA[0] = x[0] and, for i >= 1,
\* EMA[i] = (sum of (1-alpha)^k * x[i-k]) / (sum of (1-alpha)^k), k in 0..i.
C6_AdjustedEma ==
    pc["calculate_macd"] = "done" =>
      /\ IsAdjustedEma(ema_fast, close_prices, fast)
      /\ IsAdjustedEma(ema_slow, close_prices, slow)
      /\ IsAdjustedEma(signal_line, macd_line, signal)
      /\ macd_line = SeriesSub(ema_fast, ema_slow)

\* three samples, spans above 1, and every one of the three averages off the
\* recursion
C6_Witness ==
    /\ pc["calculate_macd"] = "done"
    /\ Len(close_prices) >= 3
    /\ fast < slow
    /\ ~IsRecursiveEma(ema_fast, close_prices, fast)
    /\ ~IsRecursiveEma(ema_slow, close_prices, slow)
    /\ ~IsRecursiveEma(signal_line, macd_line, signal)

\* C7: an invalid configuration ends in an error: calculate_macd with a
\* non-positive fast, slow or signal period or with fast >= slow, and
\* calculate_rsi with a non-positive period.
C7_InvalidConfigRejected ==
    /\ (/\ pc["calculate_macd"] \in {"done", "error"}
        /\ (fast <= 0 \/ slow <= 0 \/ signal <= 0 \/ fast >= slow))
         => pc["calculate_macd"] = "error"
    /\ (pc["calculate_rsi"] \in {"done", "error"} /\ period <= 0)
         => pc["calculate_rsi"] = "error"

\* price[i] >= price[i-1] throughout
Monotone(x) == \A k \in 2..Len(x) : RLe(x[k - 1], x[k])

\* C8: on a monotonically increasing price series, calculate_rsi followed by
\* detect_rsi_signals gives an empty Sell list.
C8_MonotoneNoSell ==
    (pc["detect_rsi"] = "done" /\ Monotone(close_prices))
    => rsi_sell_signals = <<>>

\* a rise followed by a flat day, seen through a window of one
C8_Witness ==
    /\ pc["detect_rsi"] = "done"
    /\ Monotone(close_prices)
    /\ Len(close_prices) >= 3
    /\ \E k \in 2..Len(rsi) : rsi[k - 1] = Num(100) /\ ~notna(rsi[k])
    /\ rsi_sell_signals = <<>>

WellFormed(buy, sell, n) ==
    /\ Range(buy) \cup Range(sell) \subseteq 1..(n - 1)
    /\ StrictlyIncreasing(buy)
    /\ StrictlyIncreasing(sell)
    /\ Range(buy) \cap Range(sell) = {}

\* C9: for both detectors, on a series of any length n (0 and 1 included,
\* undefined entries included): every returned index is in 1..n-1, each list
\* is strictly increasing, and no index is in both lists of a detector.
C9_IndicesWellFormed ==
    /\ pc["detect_macd"] = "done"
         => WellFormed(macd_buy_signals, macd_sell_signals, Len(macd_line))
    /\ pc["detect_rsi"] = "done"
         => WellFormed(rsi_buy_signals, rsi_sell_signals, Len(rsi))

\* a MACD line with an undefined entry and two events, beside the empty RSI
\* series
C9_Witness ==
    /\ pc["detect_macd"] = "done" /\ pc["detect_rsi"] = "done"
    /\ Len(macd_line) = 4
    /\ \E k \in 1..Len(macd_line) : ~notna(macd_line[k])
    /\ Len(macd_buy_signals) + Len(macd_sell_signals) >= 2
    /\ Len(rsi) = 0 /\ rsi_buy_signals = <<>>

NoTies(m, s) == \A k \in 1..Len(m) : m[k] # s[k]

\* C10: on fully defined lines without ties, the events of detect_macd_signals
\* in index order alternate between Buy and Sell.
C10_Alternation ==
    (/\ pc["detect_macd"] = "done"
     /\ AllDefined(macd_line) /\ AllDefined(signal_line)
     /\ NoTies(macd_line, signal_line))
    => LET B == Range(macd_buy_signals)
           S == Range(macd_sell_signals)
       IN  \A i, j \in B \cup S :
              (i < j /\ ~\E h \in B \cup S : i < h /\ h < j)
              => ((i \in B) # (j \in B))

C10_Witness ==
    /\ pc["detect_macd"] = "done"
    /\ AllDefined(macd_line) /\ AllDefined(signal_line)
    /\ NoTies(macd_line, signal_line)
    /\ Len(macd_buy_signals) + Len(macd_sell_signals) >= 3

====
